---- MODULE Spec2Model ----
(***************************************************************************)
(* cc_rdm: Configuration, TransferOperation and IngestOperation of         *)
(* src/cc_rdm/__init__.py as a state machine.                              *)
(*                                                                         *)
(* Python strings are sequences of one-character strings, so that          *)
(* os.path.join can be computed; Python's None is the value None below     *)
(* for string-valued fields, NoApi / NoTask / NoneRef for handles.         *)
(* Every method is one action; lastCall records what the last call did:    *)
(* the exception it raised ("" when it returned), the value it returned    *)
(* and the calls it made on the remote capabilities, in order.             *)
(***************************************************************************)
EXTENDS Integers, Sequences, FiniteSets, TLC

VARIABLES cfg, authCalls, top, lists, svc, iop, fs, lastCall, callers,
          bop, bagStore

vars == <<cfg, authCalls, top, lists, svc, iop, fs, lastCall, callers,
          bop, bagStore>>

\* ------------------------------------------------------------------ bounds
\* credential exchanges with the authenticator explored: by calls of
\* get_api on the Configuration, and by calls on a transfer operation
MaxAuth == 2
MaxAuthTransfer == 1
\* list.append calls explored over all file lists
MaxAppends == 2
\* submission ids the transfer service hands out
MaxSubs == 2

\* ------------------------------------------------------------------ values
None == <<"None">>
NoApi == 0
NoTask == 0
NoneRef == "None"

Opt(v) == {None, v}

Raised(call) == call.exc # ""
Returned(call) == call.exc = ""

\* os.path.join(a, b) on POSIX: an absolute b replaces a; otherwise b is
\* appended, after a separator unless a is empty or already ends with one
PathJoin(a, b) ==
    IF b # <<>> /\ b[1] = "/" THEN b
    ELSE IF a = <<>> \/ a[Len(a)] = "/" THEN a \o b
    ELSE a \o <<"/">> \o b

\* ----------------------------------------------------------- Configuration
\* Configuration.__init__: every field as given, api unset
Configuration(src_endpoint, dip_endpoint, aip_endpoint, proc_dir, ingest_dir, aip_dir, dip_dir, globus_user, globus_pass, a_rest_url, a_user, a_api_key, needs_preservation) ==
    [src_endpoint |-> src_endpoint, dip_endpoint |-> dip_endpoint,
     aip_endpoint |-> aip_endpoint, proc_dir |-> proc_dir,
     ingest_dir |-> ingest_dir, aip_dir |-> aip_dir, dip_dir |-> dip_dir,
     globus_user |-> globus_user, globus_pass |-> globus_pass,
     needs_preservation |-> needs_preservation, a_rest_url |-> a_rest_url,
     a_user |-> a_user, a_api_key |-> a_api_key, api |-> NoApi]

\* the outcome of a call of get_api on configuration c after n exchanges
Outcome(c, n, exc, ret, calls) ==
    [cfg |-> c, n |-> n, exc |-> exc, ret |-> ret, calls |-> calls]

TokenCall(c) ==
    [m |-> "get_access_token", username |-> c.globus_user,
     password |-> c.globus_pass]

ClientCall(tok) == [m |-> "TransferAPIClient", goauth |-> tok]

GetApiFails == {"none", "auth", "client"}

\* get_api without the credential checks
get_api_nocheck(c, n, fail) ==
    IF c.api = NoApi
    THEN IF fail = "auth"
         THEN Outcome(c, n + 1, "AuthError", NoApi, <<TokenCall(c)>>)
         ELSE IF fail = "client"
         THEN Outcome(c, n + 1, "ClientError", NoApi,
                      <<TokenCall(c), ClientCall(n + 1)>>)
         ELSE Outcome([c EXCEPT !.api = n + 1], n + 1, "", n + 1,
                      <<TokenCall(c), ClientCall(n + 1)>>)
    ELSE Outcome(c, n, "", c.api, <<>>)

\* get_api without the test of the cached handle
get_api_nocache(c, n, fail) ==
    IF c.globus_user = None
    THEN Outcome(c, n, "ConfigException", NoApi, <<>>)
    ELSE IF c.globus_pass = None
    THEN Outcome(c, n, "ConfigException", NoApi, <<>>)
    ELSE IF fail = "auth"
    THEN Outcome(c, n + 1, "AuthError", NoApi, <<TokenCall(c)>>)
    ELSE IF fail = "client"
    THEN Outcome(c, n + 1, "ClientError", NoApi,
                 <<TokenCall(c), ClientCall(n + 1)>>)
    ELSE Outcome([c EXCEPT !.api = n + 1], n + 1, "", n + 1,
                 <<TokenCall(c), ClientCall(n + 1)>>)

\* Configuration.get_api. The authenticator's n-th exchange yields token n,
\* and the client built over it is handle n; fail names the remote step
\* that raises, if it is reached.
\* get_api that caches the handle before the client is built
get_api_halfbuilt(c, n, fail) ==
    IF c.api = NoApi
    THEN IF c.globus_user = None
         THEN Outcome(c, n, "ConfigException", NoApi, <<>>)
         ELSE IF c.globus_pass = None
         THEN Outcome(c, n, "ConfigException", NoApi, <<>>)
         ELSE IF fail = "auth"
         THEN Outcome(c, n + 1, "AuthError", NoApi, <<TokenCall(c)>>)
         ELSE IF fail = "client"
         THEN Outcome([c EXCEPT !.api = n + 1], n + 1, "ClientError", NoApi,
                      <<TokenCall(c), ClientCall(n + 1)>>)
         ELSE Outcome([c EXCEPT !.api = n + 1], n + 1, "", n + 1,
                      <<TokenCall(c), ClientCall(n + 1)>>)
    ELSE Outcome(c, n, "", c.api, <<>>)

get_api(c, n, fail) ==
    IF c.api = NoApi
    THEN IF c.globus_user = None
         THEN Outcome(c, n, "ConfigException", NoApi, <<>>)
         ELSE IF c.globus_pass = None
         THEN Outcome(c, n, "ConfigException", NoApi, <<>>)
         ELSE IF fail = "auth"
         THEN Outcome(c, n + 1, "AuthError", NoApi, <<TokenCall(c)>>)
         ELSE IF fail = "client"
         THEN Outcome(c, n + 1, "ClientError", NoApi,
                      <<TokenCall(c), ClientCall(n + 1)>>)
         ELSE Outcome([c EXCEPT !.api = n + 1], n + 1, "", n + 1,
                      <<TokenCall(c), ClientCall(n + 1)>>)
    ELSE Outcome(c, n, "", c.api, <<>>)

\* the failure chosen is one the call runs into
FailTaken(fail, r) ==
    /\ fail = "auth" => r.exc = "AuthError"
    /\ fail = "client" => r.exc = "ClientError"
    /\ fail \in {"act_src", "act_dest", "subid", "submit", "task"} =>
          /\ r.exc = "ServiceError"
          /\ r.calls[Len(r.calls)].m =
                CASE fail = "act_src" -> "endpoint_autoactivate"
                  [] fail = "act_dest" -> "endpoint_autoactivate"
                  [] fail = "subid" -> "transfer_submission_id"
                  [] fail = "submit" -> "transfer"
                  [] fail = "task" -> "task"

\* a call: args are strings, ret is the string returned ("" for none) and
\* api the client handle returned (NoApi for none)
Call(op, self, args, exc, ret, api, calls) ==
    [op |-> op, self |-> self, args |-> args, exc |-> exc, ret |-> ret,
     api |-> api, calls |-> calls]

NoCall == Call("", 0, <<>>, "", "", NoApi, <<>>)

\* str(b) of a Python bool
BoolStr(b) == IF b THEN "True" ELSE "False"

\* a caller invokes cfg.get_api()
GetApi(fail) ==
    \E r \in {get_api(cfg, authCalls, fail)} :
    /\ r.n <= MaxAuth
    /\ FailTaken(fail, r)
    /\ cfg' = r.cfg
    /\ authCalls' = r.n
    /\ lastCall' = Call("get_api", 0, <<>>, r.exc, "", r.ret, r.calls)
    /\ UNCHANGED <<bop, bagStore, callers, top, lists, svc, iop, fs>>

\* is_complete testing the user name only
is_complete_user(c) == BoolStr(~(c.globus_user = None))

\* is_complete: res, as printed
is_complete(c) == BoolStr(~(c.globus_user = None \/ c.globus_pass = None))

IsComplete ==
    /\ lastCall' = Call("is_complete", 0, <<>>, "", is_complete(cfg), NoApi, <<>>)
    /\ UNCHANGED <<bop, bagStore, callers, cfg, authCalls, top, lists, svc, iop, fs>>

\* ------------------------------------------------------- TransferOperation
TransferOps == {1, 2}

\* the list object created once for the default argument file_list = [],
\* and the list object a caller allocates for the file_list argument of o
DefaultList == "default"
ArgList(o) == IF o = 1 THEN "arg1" ELSE "arg2"
ListRefs == {DefaultList} \cup {ArgList(o) : o \in TransferOps}

Ep0 == <<"e", "0">>
Ep1 == <<"e", "1">>
Ep2 == <<"e", "2">>

\* src_dir, dest_dir given at construction; the first pair is the default
DirPairs == { << <<"/">>, <<"/">> >>, << <<"/", "s">>, <<>> >> }

\* file names a caller appends: a relative and an absolute one
Files == { <<"a">>, <<"/", "b">> }

Statuses == {"ACTIVE", "SUCCEEDED"}

NoTransferOperation ==
    [alive |-> FALSE, config |-> NoneRef, src_dir |-> <<>>, dest_dir |-> <<>>,
     file_list |-> NoneRef, go_task_id |-> NoTask]

\* the list a constructor call without file_list binds: the one list
\* object evaluated when the def statement ran
BoundDefault(o) == DefaultList

\* TransferOperation.__init__
TransferOperation(config, src_dir, dest_dir, file_list) ==
    [alive |-> TRUE, config |-> config, src_dir |-> src_dir,
     dest_dir |-> dest_dir, file_list |-> file_list, go_task_id |-> NoTask]

\* t = TransferOperation(config, src_dir, dest_dir[, file_list]) with fl one
\* of "None" (file_list = None), "default" (no file_list argument),
\* "arg" (file_list = [], a new list of the caller); operations are
\* numbered in the order they are constructed
NewTransferOperation(o, config, dirs, fl) ==
    /\ ~top[o].alive
    /\ \A p \in TransferOps : p < o => top[p].alive
    /\ top' = [top EXCEPT ![o] =
                 TransferOperation(config, dirs[1], dirs[2],
                     IF fl = "None" THEN NoneRef
                     ELSE IF fl = "default" THEN BoundDefault(o)
                     ELSE ArgList(o))]
    /\ lastCall' = Call("TransferOperation", o, << <<fl>> >>, "", "", NoApi, <<>>)
    /\ UNCHANGED <<bop, bagStore, callers, cfg, authCalls, lists, svc, iop, fs>>

RECURSIVE SumLen(_)
SumLen(R) ==
    IF R = {} THEN 0
    ELSE LET r == CHOOSE x \in R : TRUE IN Len(lists[r]) + SumLen(R \ {r})

\* t.file_list.append(f)
AppendFile(o, f) ==
    /\ top[o].alive
    /\ top[o].file_list # NoneRef
    /\ SumLen(ListRefs) < MaxAppends
    /\ lists' = [lists EXCEPT ![top[o].file_list] = Append(@, f)]
    /\ lastCall' = Call("append", o, <<f>>, "", "", NoApi, <<>>)
    /\ UNCHANGED <<bop, bagStore, callers, cfg, authCalls, top, svc, iop, fs>>

\* the move items of the descriptor, the last file left out
ItemsDropLast(src_dir, dest_dir, fl) ==
    [i \in 1..(Len(fl) - 1) |->
        <<PathJoin(src_dir, fl[i]), PathJoin(dest_dir, fl[i])>>]

\* the move items of the descriptor: for file in self.file_list: t.add_item
Items(src_dir, dest_dir, fl) ==
    [i \in 1..Len(fl) |->
        <<PathJoin(src_dir, fl[i]), PathJoin(dest_dir, fl[i])>>]

ActivateCall(ep) == [m |-> "endpoint_autoactivate", endpoint |-> ep]
SubIdCall(v) == [m |-> "transfer_submission_id", value |-> v]
\* a descriptor built over the submission id of the call before
TransferCallStale(sub, src, dest, items, task) ==
    [m |-> "transfer", submission_id |-> sub - 1, src |-> src, dest |-> dest,
     items |-> items, task_id |-> task]

TransferCall(sub, src, dest, items, task) ==
    [m |-> "transfer", submission_id |-> sub, src |-> src, dest |-> dest,
     items |-> items, task_id |-> task]
TaskCall(id) == [m |-> "task", task_id |-> id, fields |-> "status"]

StartFails == {"none", "auth", "act_src", "act_dest", "subid", "submit"}

\* a start_transfer that records the submission id as soon as it has one
StartOutcomeEarly(exc, calls, c, n, s, task) ==
    [exc |-> exc, calls |-> calls, cfg |-> c, n |-> n, svc |-> s,
     go_task_id |-> IF exc # "" /\ s.nextSub # svc.nextSub THEN s.nextSub
                    ELSE task]

\* a start_transfer that forgets the task id when it fails
StartOutcomeClears(exc, calls, c, n, s, task) ==
    [exc |-> exc, calls |-> calls, cfg |-> c, n |-> n, svc |-> s,
     go_task_id |-> IF exc # "" THEN NoTask ELSE task]

StartOutcome(exc, calls, c, n, s, task) ==
    [exc |-> exc, calls |-> calls, cfg |-> c, n |-> n, svc |-> s,
     go_task_id |-> task]

\* an assignment that keeps a task id already recorded
SetTaskIdOnce(self, task) ==
    IF self.go_task_id # NoTask THEN self ELSE [self EXCEPT !.go_task_id = task]

\* self.go_task_id = data['task_id']
SetTaskId(self, task) == [self EXCEPT !.go_task_id = task]

\* TransferOperation.start_transfer(src, dest) on top[o]: what it raises,
\* the remote calls it makes, and the configuration, service and task id
\* it leaves. An endpoint that is None cannot be activated.
start_transfer(o, src, dest, fail) ==
    LET self == top[o]
        raise(exc, calls, c, n, s) ==
            StartOutcome(exc, calls, c, n, s, self.go_task_id)
    IN
    IF src = None /\ self.config = NoneRef
    THEN raise("AttributeError", <<>>, cfg, authCalls, svc)
    ELSE
    LET src1 == IF src = None THEN cfg.src_endpoint ELSE src IN
    IF dest = None
    THEN \* self.config.proc_endpoint: Configuration has no such attribute
         raise("AttributeError", <<>>, cfg, authCalls, svc)
    ELSE IF self.file_list = NoneRef \/ Len(lists[self.file_list]) = 0
    THEN raise("TransferException", <<>>, cfg, authCalls, svc)
    ELSE IF self.config = NoneRef
    THEN raise("AttributeError", <<>>, cfg, authCalls, svc)
    ELSE
    LET g == get_api(cfg, authCalls, fail) IN
    IF Raised(g)
    THEN raise(g.exc, g.calls, g.cfg, g.n, svc)
    ELSE
    LET c1 == g.calls \o <<ActivateCall(src1)>> IN
    IF fail = "act_src" \/ src1 = None
    THEN raise("ServiceError", c1, g.cfg, g.n, svc)
    ELSE
    LET c2 == c1 \o <<ActivateCall(dest)>> IN
    IF fail = "act_dest"
    THEN raise("ServiceError", c2, g.cfg, g.n, svc)
    ELSE IF fail = "subid"
    THEN raise("ServiceError", c2 \o <<SubIdCall(NoTask)>>, g.cfg, g.n, svc)
    ELSE
    LET sub == svc.nextSub + 1
        s1 == [svc EXCEPT !.nextSub = sub]
        c3 == c2 \o <<SubIdCall(sub)>>
        items == Items(self.src_dir, self.dest_dir, lists[self.file_list])
    IN
    IF fail = "submit"
    THEN raise("ServiceError",
               c3 \o <<TransferCall(sub, src1, dest, items, NoTask)>>,
               g.cfg, g.n, s1)
    ELSE
    LET s2 == [s1 EXCEPT !.tasks = Append(@, "ACTIVE")]
        task == Len(s2.tasks)
    IN StartOutcome("", c3 \o <<TransferCall(sub, src1, dest, items, task)>>,
                    g.cfg, g.n, s2, SetTaskId(self, task).go_task_id)

\* t.start_transfer(src, dest)
StartTransfer(o, src, dest, fail) ==
    \E r \in {start_transfer(o, src, dest, fail)} :
    /\ top[o].alive
    /\ r.n <= MaxAuthTransfer
    /\ r.svc.nextSub <= MaxSubs
    /\ FailTaken(fail, r)
    /\ cfg' = r.cfg
    /\ authCalls' = r.n
    /\ svc' = r.svc
    /\ top' = [top EXCEPT ![o].go_task_id = r.go_task_id]
    /\ lastCall' = Call("start_transfer", o, <<src, dest>>, r.exc, "", NoApi,
                        r.calls)
    /\ UNCHANGED <<bop, bagStore, callers, lists, iop, fs>>

StatusFails == {"none", "auth", "task"}

StatusOutcome(exc, ret, calls, c, n) ==
    [exc |-> exc, ret |-> ret, calls |-> calls, cfg |-> c, n |-> n]

\* transfer_status asking for the newest task of the service
transfer_status_newest(o, fail) ==
    LET self == top[o] IN
    IF self.go_task_id = NoTask
    THEN StatusOutcome("TransferException", "", <<>>, cfg, authCalls)
    ELSE IF self.config = NoneRef
    THEN StatusOutcome("AttributeError", "", <<>>, cfg, authCalls)
    ELSE
    LET g == get_api(cfg, authCalls, fail) IN
    IF Raised(g)
    THEN StatusOutcome(g.exc, "", g.calls, g.cfg, g.n)
    ELSE
    LET id == Len(svc.tasks)
        calls == g.calls \o <<TaskCall(id)>> IN
    IF fail = "task"
    THEN StatusOutcome("ServiceError", "", calls, g.cfg, g.n)
    ELSE StatusOutcome("", svc.tasks[id], calls, g.cfg, g.n)

\* transfer_status without the test of go_task_id
transfer_status_noguard(o, fail) ==
    LET self == top[o] IN
    IF self.config = NoneRef
    THEN StatusOutcome("AttributeError", "", <<>>, cfg, authCalls)
    ELSE
    LET g == get_api(cfg, authCalls, fail) IN
    IF Raised(g)
    THEN StatusOutcome(g.exc, "", g.calls, g.cfg, g.n)
    ELSE
    LET calls == g.calls \o <<TaskCall(self.go_task_id)>> IN
    IF fail = "task" \/ self.go_task_id = NoTask
    THEN StatusOutcome("ServiceError", "", calls, g.cfg, g.n)
    ELSE StatusOutcome("", svc.tasks[self.go_task_id], calls, g.cfg, g.n)

\* TransferOperation.transfer_status() on top[o]
transfer_status(o, fail) ==
    LET self == top[o] IN
    IF self.go_task_id = NoTask
    THEN StatusOutcome("TransferException", "", <<>>, cfg, authCalls)
    ELSE IF self.config = NoneRef
    THEN StatusOutcome("AttributeError", "", <<>>, cfg, authCalls)
    ELSE
    LET g == get_api(cfg, authCalls, fail) IN
    IF Raised(g)
    THEN StatusOutcome(g.exc, "", g.calls, g.cfg, g.n)
    ELSE
    LET calls == g.calls \o <<TaskCall(self.go_task_id)>> IN
    IF fail = "task"
    THEN StatusOutcome("ServiceError", "", calls, g.cfg, g.n)
    ELSE StatusOutcome("", svc.tasks[self.go_task_id], calls, g.cfg, g.n)

\* t.transfer_status()
TransferStatus(o, fail) ==
    \E r \in {transfer_status(o, fail)} :
    /\ top[o].alive
    /\ r.n <= MaxAuthTransfer
    /\ FailTaken(fail, r)
    /\ cfg' = r.cfg
    /\ authCalls' = r.n
    /\ lastCall' = Call("transfer_status", o, <<>>, r.exc, r.ret, NoApi,
                        r.calls)
    /\ UNCHANGED <<bop, bagStore, callers, top, lists, svc, iop, fs>>

\* the transfer service finishes a task
RemoteProgress(t, st) ==
    /\ t \in 1..Len(svc.tasks)
    /\ svc.tasks[t] = "ACTIVE"
    /\ st \in Statuses \ {"ACTIVE"}
    /\ svc' = [svc EXCEPT !.tasks[t] = st]
    /\ UNCHANGED <<bop, bagStore, callers, cfg, authCalls, top, lists, iop, fs, lastCall>>

\* --------------------------------------------------------- IngestOperation
IngestOps == {1}

Bags == { <<"X">>, <<"Y">> }

ProcDir == <<"/", "p">>
IngestDir == <<"/", "i">>
DipDir == <<"/", "d">>
AipDir == <<"/", "a">>

NoIngestOperation == [alive |-> FALSE, config |-> NoneRef, bagname |-> None]

\* IngestOperation.__init__
IngestOperation(config, bagname) ==
    [alive |-> TRUE, config |-> config, bagname |-> bagname]

\* i = IngestOperation(config, bagname)
NewIngestOperation(i, config, bagname) ==
    /\ ~iop[i].alive
    /\ iop' = [iop EXCEPT ![i] = IngestOperation(config, bagname)]
    /\ lastCall' = Call("IngestOperation", i, <<bagname>>, "", "", NoApi, <<>>)
    /\ UNCHANGED <<bop, bagStore, callers, cfg, authCalls, top, lists, svc, fs>>

\* can_ingest without the test of bagname
can_ingest_nobag(self) ==
    IF self.config = NoneRef THEN FALSE
    ELSE IF cfg.proc_dir = None THEN FALSE
    ELSE IF cfg.ingest_dir = None THEN FALSE
    ELSE IF cfg.dip_dir = None THEN FALSE
    ELSE IF cfg.needs_preservation /\ cfg.aip_dir = None THEN FALSE
    ELSE TRUE

\* IngestOperation.can_ingest
can_ingest(self) ==
    IF self.config = NoneRef THEN FALSE
    ELSE IF cfg.proc_dir = None THEN FALSE
    ELSE IF cfg.ingest_dir = None THEN FALSE
    ELSE IF cfg.dip_dir = None THEN FALSE
    ELSE IF cfg.needs_preservation /\ cfg.aip_dir = None THEN FALSE
    ELSE IF self.bagname = None THEN FALSE
    ELSE TRUE

\* i.can_ingest()
CanIngest(i) ==
    /\ iop[i].alive
    /\ lastCall' = Call("can_ingest", i, <<>>, "",
                        BoolStr(can_ingest(iop[i])), NoApi, <<>>)
    /\ UNCHANGED <<bop, bagStore, callers, cfg, authCalls, top, lists, svc, iop, fs>>

IngestOutcome(exc, files, calls) ==
    [exc |-> exc, fs |-> files, calls |-> calls]

RenameCall(from, to) == [m |-> "os.rename", src |-> from, dst |-> to]

\* os.rename(from, to) on the files present
Rename(files, from, to) ==
    IF from \in files
    THEN IngestOutcome("", (files \ {from}) \cup {to}, <<RenameCall(from, to)>>)
    ELSE IngestOutcome("OSError", files, <<RenameCall(from, to)>>)

\* ingest without the test of can_ingest: os.path.join raises on a None
ingest_noguard(self, copy_file) ==
    IF ~copy_file THEN IngestOutcome("", fs, <<>>)
    ELSE IF self.config = NoneRef THEN IngestOutcome("AttributeError", fs, <<>>)
    ELSE IF None \in {cfg.proc_dir, cfg.ingest_dir, self.bagname}
    THEN IngestOutcome("TypeError", fs, <<>>)
    ELSE Rename(fs, PathJoin(cfg.proc_dir, self.bagname),
                PathJoin(cfg.ingest_dir, self.bagname))

\* IngestOperation.ingest(copy_file)
ingest(self, copy_file) ==
    IF can_ingest(self) = FALSE
    THEN IngestOutcome("IngestException", fs, <<>>)
    ELSE IF copy_file
    THEN Rename(fs, PathJoin(cfg.proc_dir, self.bagname),
                PathJoin(cfg.ingest_dir, self.bagname))
    ELSE IngestOutcome("", fs, <<>>)

\* i.ingest(copy_file)
Ingest(i, copy_file) ==
    \E r \in {ingest(iop[i], copy_file)} :
    /\ iop[i].alive
    /\ fs' = r.fs
    /\ lastCall' = Call("ingest", i, << <<BoolStr(copy_file)>> >>, r.exc, "",
                        NoApi, r.calls)
    /\ UNCHANGED <<bop, bagStore, callers, cfg, authCalls, top, lists, svc, iop>>

\* i.ingest(bagname = b): ingest has the one parameter copy_file, so the
\* call raises TypeError before the body runs
IngestBagname(i, b) ==
    /\ iop[i].alive
    /\ lastCall' = Call("ingest(bagname)", i, <<b>>, "TypeError", "", NoApi,
                        <<>>)
    /\ UNCHANGED <<bop, bagStore, callers, cfg, authCalls, top, lists, svc, iop, fs>>

\* ------------------------------------------------------------ BagOperation
\* the most bags the packaging library is asked for
MaxBags == 2

NoBag == 0

\* directories and metadata dictionaries ({} and one with a title)
BagDirs == { <<".">>, <<"/", "s">> }
EmptyDict == <<>>
Metas == { EmptyDict, <<"t">> }

\* given_dir and given_metadata keep the arguments of the constructor call
NoBagOperation ==
    [alive |-> FALSE, dir |-> <<".">>, metadata |-> EmptyDict, bag |-> NoBag,
     given_dir |-> <<".">>, given_metadata |-> EmptyDict]

\* BagOperation.__init__: the metadata attribute is set to a new empty
\* dictionary whatever the argument is
BagOperation(dir, metadata, bag) ==
    [alive |-> TRUE, dir |-> dir, metadata |-> EmptyDict, bag |-> bag,
     given_dir |-> dir, given_metadata |-> metadata]

\* a bag of the packaging library: where and with what it was made, and
\* whether its payload still matches its manifests
Bag(dir, metadata, valid) == [dir |-> dir, metadata |-> metadata, valid |-> valid]

\* BagOperation(dir, metadata): no bag yet
NewBagOperation(dir, metadata) ==
    /\ bop' = BagOperation(dir, metadata, NoBag)
    /\ lastCall' = Call("BagOperation", 0, <<dir, metadata>>, "", "", NoApi, <<>>)
    /\ UNCHANGED <<bagStore, callers, cfg, authCalls, top, lists, svc, iop, fs>>

\* BagOperation(dir, metadata, bag) with a bag the caller opened
NewBagOperationWithBag(dir, metadata, valid) ==
    /\ Len(bagStore) < MaxBags
    /\ bagStore' = Append(bagStore, Bag(dir, metadata, valid))
    /\ bop' = BagOperation(dir, metadata, Len(bagStore) + 1)
    /\ lastCall' = Call("BagOperation", 0, <<dir, metadata>>, "", "",
                        Len(bagStore) + 1, <<>>)
    /\ UNCHANGED <<callers, cfg, authCalls, top, lists, svc, iop, fs>>

MakeBagCall(dir, metadata) == [m |-> "bagit.make_bag", dir |-> dir, info |-> metadata]
IsValidCall(bag) == [m |-> "Bag.is_valid", bag |-> bag]

BagOutcome(exc, ret, self, store, calls) ==
    [exc |-> exc, ret |-> ret, self |-> self, store |-> store, calls |-> calls]

\* make_bag; fail: the packaging library raises (directory unreadable)
make_bag(self, store, fail) ==
    IF fail
    THEN BagOutcome("BagError", NoBag, self, store,
                    <<MakeBagCall(self.dir, self.metadata)>>)
    ELSE BagOutcome("", Len(store) + 1,
                    [self EXCEPT !.bag = Len(store) + 1],
                    Append(store, Bag(self.dir, self.metadata, TRUE)),
                    <<MakeBagCall(self.dir, self.metadata)>>)

MakeBag(fail) ==
    \E r \in {make_bag(bop, bagStore, fail)} :
    /\ bop.alive
    /\ Len(r.store) <= MaxBags
    /\ bop' = r.self
    /\ bagStore' = r.store
    /\ lastCall' = Call("make_bag", 0, <<>>, r.exc, "", r.ret, r.calls)
    /\ UNCHANGED <<callers, cfg, authCalls, top, lists, svc, iop, fs>>

\* is_valid without the test of self.bag
is_valid_nocheck(self, store) ==
    IF self.bag = NoBag
    THEN BagOutcome("AttributeError", "", self, store, <<>>)
    ELSE BagOutcome("", BoolStr(store[self.bag].valid), self, store,
                    <<IsValidCall(self.bag)>>)

is_valid(self, store) ==
    IF self.bag = NoBag
    THEN BagOutcome("", "False", self, store, <<>>)
    ELSE BagOutcome("", BoolStr(store[self.bag].valid), self, store,
                    <<IsValidCall(self.bag)>>)

IsValid ==
    \E r \in {is_valid(bop, bagStore)} :
    /\ bop.alive
    /\ bop' = r.self
    /\ bagStore' = r.store
    /\ lastCall' = Call("is_valid", 0, <<>>, r.exc, r.ret, NoBag, r.calls)
    /\ UNCHANGED <<callers, cfg, authCalls, top, lists, svc, iop, fs>>

\* the files of a bag change on disk, and with them the verdict of the
\* bag's integrity check
Tamper(b) ==
    /\ b \in 1..Len(bagStore)
    /\ bagStore' = [bagStore EXCEPT ![b].valid = ~@]
    /\ UNCHANGED <<bop, callers, cfg, authCalls, top, lists, svc, iop, fs, lastCall>>

\* ------------------------------------------- get_api, statement by statement
\* callers of cfg.get_api() that run concurrently (TransferOperation._get_api
\* of operations sharing the Configuration); the code takes no lock, so
\* the callers interleave between the statements of get_api
Threads == {1, 2}

NoCaller == [pc |-> "idle", tok |-> NoApi, exc |-> "", ret |-> NoApi]

At(t, pc) == callers[t].pc = pc

Goto(t, pc) == callers' = [callers EXCEPT ![t].pc = pc]

OnlyCallers ==
    UNCHANGED <<bop, bagStore, cfg, authCalls, top, lists, svc, iop, fs, lastCall>>

\* a caller enters get_api
ConcCall(t) ==
    /\ callers[t].pc \in {"idle", "done"}
    /\ callers' = [callers EXCEPT ![t] = [NoCaller EXCEPT !.pc = "cache"]]
    /\ OnlyCallers

\* if self.api == None
ConcCheckCache(t) ==
    /\ At(t, "cache")
    /\ Goto(t, IF cfg.api = NoApi THEN "creds" ELSE "return")
    /\ OnlyCallers

\* the tests of globus_user and globus_pass
ConcCheckCreds(t) ==
    /\ At(t, "creds")
    /\ IF cfg.globus_user = None \/ cfg.globus_pass = None
       THEN callers' = [callers EXCEPT ![t].pc = "done",
                                       ![t].exc = "ConfigException"]
       ELSE Goto(t, "exchange")
    /\ OnlyCallers

\* auth_tok = get_access_token(...)
ConcExchange(t) ==
    /\ At(t, "exchange")
    /\ authCalls < MaxAuth
    /\ authCalls' = authCalls + 1
    /\ callers' = [callers EXCEPT ![t].pc = "build", ![t].tok = authCalls + 1]
    /\ UNCHANGED <<bop, bagStore, cfg, top, lists, svc, iop, fs, lastCall>>

\* self.api = TransferAPIClient(...)
ConcBuild(t) ==
    /\ At(t, "build")
    /\ cfg' = [cfg EXCEPT !.api = callers[t].tok]
    /\ Goto(t, "return")
    /\ UNCHANGED <<bop, bagStore, authCalls, top, lists, svc, iop, fs, lastCall>>

\* return self.api
ConcReturn(t) ==
    /\ At(t, "return")
    /\ callers' = [callers EXCEPT ![t].pc = "done", ![t].ret = cfg.api]
    /\ OnlyCallers

\* ---------------------------------------------------------- specifications
InitRest ==
    /\ authCalls = 0
    /\ top = [o \in TransferOps |-> NoTransferOperation]
    /\ lists = [r \in ListRefs |-> <<>>]
    /\ svc = [nextSub |-> 0, tasks |-> <<>>]
    /\ iop = [i \in IngestOps |-> NoIngestOperation]
    /\ lastCall = NoCall
    /\ callers = [t \in Threads |-> NoCaller]
    /\ bop = NoBagOperation
    /\ bagStore = <<>>

User == <<"u">>
Pass == <<"p">>

\* one Configuration, any field given or left at its default
InitConfig ==
    /\ \E se \in Opt(Ep0), de \in Opt(Ep1), ae \in Opt(Ep2),
          pd \in Opt(ProcDir), id \in Opt(IngestDir), ad \in Opt(AipDir),
          dd \in Opt(DipDir), gu \in Opt(User), gp \in Opt(Pass),
          ru \in Opt(<<"r">>), au \in Opt(<<"a">>), ak \in Opt(<<"k">>),
          np \in BOOLEAN :
          cfg = Configuration(se, de, ae, pd, id, ad, dd, gu, gp, ru, au, ak, np)
    /\ fs = {}
    /\ InitRest

NextConfig ==
    \/ \E fail \in GetApiFails : GetApi(fail)
    \/ IsComplete

SpecConfig == InitConfig /\ [][NextConfig]_vars

\* one Configuration with or without a source endpoint and a password,
\* shared by the transfer operations built against it
InitTransfer ==
    /\ \E se \in Opt(Ep0), gu \in {User}, gp \in Opt(Pass) :
          cfg = Configuration(se, None, None, None, None, None, None, gu, gp,
                              None, None, None, FALSE)
    /\ fs = {}
    /\ InitRest

\* the calls made on the transfer operations Ops
NextTransferOn(Ops) ==
    \/ \E o \in Ops, c \in {NoneRef, "cfg"}, d \in DirPairs,
          fl \in {"None", "default", "arg"} : NewTransferOperation(o, c, d, fl)
    \/ \E o \in Ops, f \in Files : AppendFile(o, f)
    \/ \E o \in Ops, src \in Opt(Ep1), dest \in Opt(Ep2),
          fail \in StartFails : StartTransfer(o, src, dest, fail)
    \/ \E o \in Ops, fail \in StatusFails : TransferStatus(o, fail)
    \/ \E t \in 1..MaxSubs, st \in Statuses : RemoteProgress(t, st)

\* one transfer operation, every failure of the remote services
NextTransfer == NextTransferOn({1})

SpecTransfer == InitTransfer /\ [][NextTransfer]_vars

\* two transfer operations against a complete Configuration and remote
\* services that do not fail
InitShare ==
    /\ cfg = Configuration(Ep0, None, None, None, None, None, None, User, Pass,
                           None, None, None, FALSE)
    /\ fs = {}
    /\ InitRest

NextShare ==
    \/ \E o \in TransferOps, d \in DirPairs, fl \in {"default", "arg"} :
          NewTransferOperation(o, "cfg", d, fl)
    \/ \E o \in TransferOps, f \in Files : AppendFile(o, f)
    \/ \E o \in TransferOps : StartTransfer(o, Ep1, Ep2, "none")
    \/ \E o \in TransferOps : TransferStatus(o, "none")
    \/ \E t \in 1..MaxSubs, st \in Statuses : RemoteProgress(t, st)

SpecShare == InitShare /\ [][NextShare]_vars

\* one Configuration with any ingest directories, and the bags delivered
\* to the processing directory
InitIngest ==
    /\ \E pd \in Opt(ProcDir), id \in Opt(IngestDir), ad \in Opt(AipDir),
          dd \in Opt(DipDir), np \in BOOLEAN :
          cfg = Configuration(None, None, None, pd, id, ad, dd, None, None,
                              None, None, None, np)
    /\ fs = {PathJoin(ProcDir, b) : b \in Bags}
    /\ InitRest

NextIngest ==
    \/ \E i \in IngestOps, c \in {NoneRef, "cfg"}, b \in Bags \cup {None} :
          NewIngestOperation(i, c, b)
    \/ \E i \in IngestOps : CanIngest(i)
    \/ \E i \in IngestOps, cp \in BOOLEAN : Ingest(i, cp)
    \/ \E i \in IngestOps, b \in Bags : IngestBagname(i, b)

SpecIngest == InitIngest /\ [][NextIngest]_vars

\* callers of get_api on one Configuration, with or without a password,
\* and an authenticator that accepts the credentials
InitConc ==
    /\ \E gp \in Opt(Pass) :
          cfg = Configuration(Ep0, None, None, None, None, None, None, User, gp,
                              None, None, None, FALSE)
    /\ fs = {}
    /\ InitRest

NextConc ==
    \/ \E t \in Threads : ConcCall(t)
    \/ \E t \in Threads : ConcCheckCache(t)
    \/ \E t \in Threads : ConcCheckCreds(t)
    \/ \E t \in Threads : ConcExchange(t)
    \/ \E t \in Threads : ConcBuild(t)
    \/ \E t \in Threads : ConcReturn(t)

SpecConc == InitConc /\ [][NextConc]_vars

\* one BagOperation; the Configuration plays no part
InitBag ==
    /\ cfg = Configuration(None, None, None, None, None, None, None, None, None,
                           None, None, None, FALSE)
    /\ fs = {}
    /\ InitRest

NextBag ==
    \/ \E d \in BagDirs, m \in Metas : NewBagOperation(d, m)
    \/ \E d \in BagDirs, m \in Metas, v \in BOOLEAN : NewBagOperationWithBag(d, m, v)
    \/ \E fail \in BOOLEAN : MakeBag(fail)
    \/ IsValid
    \/ \E b \in 1..MaxBags : Tamper(b)

SpecBag == InitBag /\ [][NextBag]_vars

\* ------------------------------------------------------------------ claims
\* the files of operation o: None has none
FileListOf(o) ==
    IF top[o].file_list = NoneRef THEN <<>> ELSE lists[top[o].file_list]

TransferCalls(calls) == SelectSeq(calls, LAMBDA c : c.m = "transfer")

\* a path with every run of separators collapsed to one
RECURSIVE Norm(_)
Norm(p) ==
    IF Len(p) < 2 THEN p
    ELSE IF p[1] = "/" /\ p[2] = "/" THEN Norm(Tail(p))
    ELSE <<p[1]>> \o Norm(Tail(p))

\* p names the entry file of the directory dir, written dir/file (the
\* empty directory name stands for the current directory)
IsDirSlashFile(p, dir, file) ==
    Norm(p) = Norm(IF dir = <<>> THEN file ELSE dir \o <<"/">> \o file)

Relative(file) == file = <<>> \/ file[1] # "/"

\* C1: start_transfer on an operation whose file_list is empty or None
\* raises TransferException whatever src and dest are, calls nothing on the
\* remote client and leaves go_task_id unset.
C1_EmptyListRaisesTransferException ==
    \A o \in TransferOps :
        (lastCall.op = "start_transfer" /\ lastCall.self = o
         /\ FileListOf(o) = <<>>)
        => /\ lastCall.exc = "TransferException"
           /\ lastCall.calls = <<>>
           /\ top[o].go_task_id = NoTask

\* C2: transfer_status on an operation without a task id raises
\* TransferException, obtains no client, queries nothing and changes no
\* state of the operation, the configuration or the service.
C2_StatusWithoutTask ==
    [][\A o \in TransferOps, fail \in StatusFails :
          (TransferStatus(o, fail) /\ top[o].go_task_id = NoTask)
          => /\ lastCall'.exc = "TransferException"
             /\ lastCall'.calls = <<>>
             /\ UNCHANGED <<cfg, authCalls, top, lists, svc>>]_vars

C2_Witness ==
    /\ lastCall.op = "transfer_status"
    /\ lastCall.exc = "TransferException"
    /\ top[lastCall.self].config = "cfg"
    /\ FileListOf(lastCall.self) # <<>>
    /\ cfg.globus_pass # None

\* C3: on a Configuration that lacks globus_user or globus_pass, get_api
\* raises ConfigException, the authenticator is never called, no client is
\* built and the cached handle stays unset.
C3_MissingCredential ==
    (cfg.globus_user = None \/ cfg.globus_pass = None)
    => /\ cfg.api = NoApi
       /\ authCalls = 0
       /\ lastCall.op = "get_api"
          => lastCall.exc = "ConfigException" /\ lastCall.calls = <<>>

C3_Witness ==
    /\ lastCall.op = "get_api"
    /\ lastCall.exc = "ConfigException"
    /\ cfg.globus_user # None
    /\ cfg.globus_pass = None

C5_StatusVerbatim ==
    [][\A o \in TransferOps, fail \in StatusFails :
          (TransferStatus(o, fail) /\ top[o].go_task_id # NoTask
           /\ Returned(lastCall'))
          => /\ lastCall'.calls = <<TaskCall(top[o].go_task_id)>>
             /\ lastCall'.ret = svc.tasks[top[o].go_task_id]
             /\ UNCHANGED <<cfg, authCalls, top, lists, svc>>]_vars

C5_Witness ==
    /\ lastCall.op = "transfer_status"
    /\ Returned(lastCall)
    /\ lastCall.ret = "SUCCEEDED"
    /\ top[lastCall.self].go_task_id = 1
    /\ Len(svc.tasks) = 2
    /\ svc.tasks[2] = "ACTIVE"

\* what C6 says of a start_transfer that returned, but for the shape of
\* the items: one descriptor submitted, between the endpoints given, with
\* one item per entry of file_list, and the task id it got recorded
OneDescriptor(o) ==
    LET ts == TransferCalls(lastCall.calls) IN
    /\ Len(ts) = 1
    /\ lastCall.args[1] # None => ts[1].src = lastCall.args[1]
    /\ ts[1].dest = lastCall.args[2]
    /\ Len(ts[1].items) = Len(FileListOf(o))
    /\ ts[1].task_id # NoTask
    /\ top[o].go_task_id = ts[1].task_id

\* C6 as stated: a start_transfer that returned has submitted one
\* descriptor whose i-th item pairs src_dir/file with dest_dir/file for the
\* i-th entry of file_list, and recorded the task id of that submission.
C6_EveryEntryUnderItsDirectory ==
    \A o \in TransferOps :
        (lastCall.op = "start_transfer" /\ lastCall.self = o
         /\ Returned(lastCall))
        => /\ OneDescriptor(o)
           /\ LET t == TransferCalls(lastCall.calls)[1] IN
              \A i \in 1..Len(FileListOf(o)) :
                 /\ IsDirSlashFile(t.items[i][1], top[o].src_dir,
                                   FileListOf(o)[i])
                 /\ IsDirSlashFile(t.items[i][2], top[o].dest_dir,
                                   FileListOf(o)[i])

\* the item side os.path.join gives for an entry: dir/file for a relative
\* entry, the entry itself for an absolute one
JoinedSide(p, dir, file) ==
    IF Relative(file) THEN IsDirSlashFile(p, dir, file) ELSE p = file

\* C6 amended: as C6, the i-th item pairing src_dir/file with dest_dir/file
\* where the entry is a relative path; an absolute entry stands for itself
\* on both sides, whatever src_dir and dest_dir are.
C6_ItemsAsJoined ==
    \A o \in TransferOps :
        (lastCall.op = "start_transfer" /\ lastCall.self = o
         /\ Returned(lastCall))
        => /\ OneDescriptor(o)
           /\ LET t == TransferCalls(lastCall.calls)[1] IN
              \A i \in 1..Len(FileListOf(o)) :
                 /\ JoinedSide(t.items[i][1], top[o].src_dir, FileListOf(o)[i])
                 /\ JoinedSide(t.items[i][2], top[o].dest_dir, FileListOf(o)[i])

C6_Witness ==
    /\ lastCall.op = "start_transfer"
    /\ Returned(lastCall)
    /\ FileListOf(lastCall.self) = << <<"/", "b">>, <<"a">> >>
    /\ top[lastCall.self].src_dir = <<"/", "s">>
    /\ TransferCalls(lastCall.calls)[1].items =
          << << <<"/", "b">>, <<"/", "b">> >>,
             << <<"/", "s", "/", "a">>, <<"a">> >> >>

\* what the spec asks of can_ingest: a Configuration and a bag name
HasConfigAndBag(self) == self.config # NoneRef /\ self.bagname # None

\* C7 as stated: can_ingest is true exactly when config and bagname are
\* both set, whatever the other fields of the configuration hold.
C7_ConfigAndBagSuffice ==
    lastCall.op = "can_ingest"
    => lastCall.ret = BoolStr(HasConfigAndBag(iop[lastCall.self]))

\* C7 amended: can_ingest is false whenever config or bagname is unset, and
\* true exactly when both are set and the configuration has proc_dir,
\* ingest_dir and dip_dir, and aip_dir too if needs_preservation; it makes
\* no call on anything.
C7_CanIngestNeedsDirectories ==
    lastCall.op = "can_ingest"
    => /\ lastCall.ret =
            BoolStr(/\ HasConfigAndBag(iop[lastCall.self])
                    /\ cfg.proc_dir # None
                    /\ cfg.ingest_dir # None
                    /\ cfg.dip_dir # None
                    /\ cfg.needs_preservation => cfg.aip_dir # None)
       /\ lastCall.calls = <<>>
       /\ Returned(lastCall)

C7_Witness ==
    /\ lastCall.op = "can_ingest"
    /\ lastCall.ret = "False"
    /\ HasConfigAndBag(iop[lastCall.self])
    /\ cfg.needs_preservation
    /\ cfg.aip_dir = None
    /\ None \notin {cfg.proc_dir, cfg.ingest_dir, cfg.dip_dir}

\* C8: ingest on an operation for which can_ingest() is false raises
\* IngestException and does nothing else: no rename, no file moved, for
\* either value of copy_file.
C8_IngestGuarded ==
    [][\A i \in IngestOps, copy_file \in BOOLEAN :
          (Ingest(i, copy_file) /\ ~can_ingest(iop[i]))
          => /\ lastCall'.exc = "IngestException"
             /\ lastCall'.calls = <<>>
             /\ fs' = fs
             /\ iop' = iop]_vars

C8_Witness ==
    /\ lastCall.op = "ingest"
    /\ lastCall.args = << <<"True">> >>
    /\ lastCall.exc = "IngestException"
    /\ iop[lastCall.self].config = "cfg"
    /\ iop[lastCall.self].bagname = None
    /\ None \notin {cfg.proc_dir, cfg.ingest_dir, cfg.dip_dir}

\* C9: after ingest(bagname = X) the operation's bag name is X.
C9_BagnameArgumentStored ==
    lastCall.op = "ingest(bagname)"
    => iop[lastCall.self].bagname = lastCall.args[1]

\* C10: two operations constructed without a file_list own independent
\* lists: an append to the list of one leaves the list of the other as it
\* was, and an operation constructed without a file_list starts with an
\* empty list.
C10_IndependentDefaultLists ==
    [][/\ \A o \in TransferOps, f \in Files :
             AppendFile(o, f)
             => \A p \in TransferOps \ {o} :
                   top[p].alive => FileListOf(p)' = FileListOf(p)
       /\ \A o \in TransferOps, c \in {NoneRef, "cfg"}, d \in DirPairs :
             NewTransferOperation(o, c, d, "default")
             => FileListOf(o)' = <<>>]_vars

\* C11: when several callers run get_api concurrently on a Configuration
\* without a cached client and a working authenticator, at most one
\* credential exchange is made, and the callers that have returned hold
\* the same client handle.
C11_OnceOnlyClientCreation ==
    /\ authCalls <= 1
    /\ \A t, u \in Threads :
          (At(t, "done") /\ At(u, "done") /\ Returned(callers[t])
           /\ Returned(callers[u]))
          => callers[t].ret = callers[u].ret

\* C12: make_bag asks the packaging library for a bag of exactly the
\* directory and the metadata the BagOperation was constructed with, and
\* when the library returns a bag, that bag is stored as the operation's
\* bag and returned.
C12_MakeBagUsesGivenMetadata ==
    lastCall.op = "make_bag"
    => /\ lastCall.calls = <<MakeBagCall(bop.given_dir, bop.given_metadata)>>
       /\ Returned(lastCall)
          => /\ lastCall.api # NoBag
             /\ bop.bag = lastCall.api
             /\ bagStore[bop.bag].dir = bop.given_dir
             /\ bagStore[bop.bag].metadata = bop.given_metadata

\* C13: is_valid never raises; without a bag it returns False and makes no
\* call to the packaging library; with a bag (made by make_bag or given at
\* construction) it returns the verdict of that bag's integrity check; it
\* leaves the operation and its bag as they were.
C13_IsValidVerdict ==
    [][IsValid
       => /\ Returned(lastCall')
          /\ bop.bag = NoBag
             => lastCall'.ret = "False" /\ lastCall'.calls = <<>>
          /\ bop.bag # NoBag
             => /\ lastCall'.ret = BoolStr(bagStore[bop.bag].valid)
                /\ lastCall'.calls = <<IsValidCall(bop.bag)>>
          /\ UNCHANGED <<bop, bagStore>>]_vars

\* is_valid has asked the operation's bag and answered False, the bag's
\* verdict
C13_Witness ==
    /\ lastCall.op = "is_valid"
    /\ lastCall.ret = "False"
    /\ bop.bag # NoBag
    /\ lastCall.calls = <<IsValidCall(bop.bag)>>
    /\ bop.given_metadata = EmptyDict
    /\ bagStore[bop.bag] = Bag(bop.dir, EmptyDict, FALSE)

ServiceCalls(calls) ==
    SelectSeq(calls, LAMBDA c : c.m \notin {"get_access_token", "TransferAPIClient"})

StartOrder ==
    <<"endpoint_autoactivate", "endpoint_autoactivate",
      "transfer_submission_id", "transfer">>

RemoteErrors == {"AuthError", "ClientError", "ServiceError"}

\* C15: an operation's go_task_id is unset when it is constructed, changes
\* only in a start_transfer call on that operation that returns, and is
\* set after every such call; so it is set exactly when a start_transfer
\* has succeeded. Appends to file_list, failed starts and transfer_status
\* leave it as it is, and a transfer_status that returns a status ran on an
\* operation whose go_task_id was set.
C15_TaskIdIffStarted ==
    [][\A o \in TransferOps :
          /\ ~top[o].alive => top'[o].go_task_id = NoTask
          /\ top'[o].go_task_id # top[o].go_task_id
             => /\ \E src \in Opt(Ep1), dest \in Opt(Ep2) :
                      StartTransfer(o, src, dest, "none")
                /\ Returned(lastCall')
          /\ \A src \in Opt(Ep1), dest \in Opt(Ep2), fail \in StartFails :
                (StartTransfer(o, src, dest, fail) /\ Returned(lastCall'))
                => top'[o].go_task_id # NoTask
          /\ \A fail \in StatusFails :
                (TransferStatus(o, fail) /\ Returned(lastCall'))
                => top[o].go_task_id # NoTask]_vars

\* a start_transfer has failed at the submission on an operation that no
\* start has succeeded on, and its go_task_id is unset
C15_Witness ==
    /\ lastCall.op = "start_transfer"
    /\ lastCall.exc = "ServiceError"
    /\ Len(lastCall.calls) > 0
    /\ lastCall.calls[Len(lastCall.calls)].m = "transfer"
    /\ svc.tasks = <<>>
    /\ svc.nextSub = 1
    /\ top[lastCall.self].go_task_id = NoTask

\* C16: the calls a start_transfer makes on the transfer service are, in
\* this order, the activation of the source endpoint, the activation of
\* the destination endpoint, the request of a submission id and the
\* submission; the call may stop after any of them but skips and reorders
\* none, and the descriptor submitted carries the submission id the
\* service handed out in this call.
C16_StartOrder ==
    \A o \in TransferOps :
        (lastCall.op = "start_transfer" /\ lastCall.self = o)
        => LET sc == ServiceCalls(lastCall.calls) IN
           /\ Len(sc) <= Len(StartOrder)
           /\ \A i \in 1..Len(sc) : sc[i].m = StartOrder[i]
           /\ Returned(lastCall) => Len(sc) = Len(StartOrder)
           /\ Len(sc) >= 1
              => sc[1].endpoint = IF lastCall.args[1] = None
                                  THEN cfg.src_endpoint ELSE lastCall.args[1]
           /\ Len(sc) >= 2 => sc[2].endpoint = lastCall.args[2]
           /\ Len(sc) >= 4
              => /\ sc[4].submission_id = sc[3].value
                 /\ sc[3].value = svc.nextSub
                 /\ sc[4].src = sc[1].endpoint
                 /\ sc[4].dest = sc[2].endpoint

\* the second start_transfer of an operation has returned after its four
\* service calls
C16_Witness ==
    /\ lastCall.op = "start_transfer"
    /\ Returned(lastCall)
    /\ Len(ServiceCalls(lastCall.calls)) = 4
    /\ ServiceCalls(lastCall.calls)[4].submission_id = 2
    /\ svc.nextSub = 2

\* the number of service calls made by a start_transfer that fails at fail
StepsUntil(fail) ==
    CASE fail = "auth" -> 0
      [] fail = "act_src" -> 1
      [] fail = "act_dest" -> 2
      [] fail = "subid" -> 3
      [] fail = "submit" -> 4
      [] OTHER -> 1

\* C17: a start_transfer in which the authenticator or the transfer
\* service fails stops at the failing step: the failing call (the
\* activation of the source, when no source endpoint is known) is the
\* last one made, the error raised is the service's (not a TransferException),
\* no task is created, and the operation, go_task_id included, and the
\* file lists are as before the call.
C17_FailedStartKeepsTask ==
    [][\A o \in TransferOps, src \in Opt(Ep1), dest \in Opt(Ep2),
          fail \in StartFails :
          (StartTransfer(o, src, dest, fail) /\ lastCall'.exc \in RemoteErrors)
          => /\ \/ Len(ServiceCalls(lastCall'.calls)) = StepsUntil(fail)
                \/ ServiceCalls(lastCall'.calls) = <<ActivateCall(None)>>
             /\ \A i \in 1..Len(ServiceCalls(lastCall'.calls)) :
                   ServiceCalls(lastCall'.calls)[i].m = StartOrder[i]
             /\ fail = "auth" <=> lastCall'.exc = "AuthError"
             /\ svc'.tasks = svc.tasks
             /\ top' = top
             /\ lists' = lists]_vars

\* a start_transfer has failed at the submission after an earlier one
\* succeeded, and go_task_id still names the earlier task
C17_Witness ==
    /\ lastCall.op = "start_transfer"
    /\ lastCall.exc = "ServiceError"
    /\ Len(ServiceCalls(lastCall.calls)) = 4
    /\ top[lastCall.self].go_task_id = 1
    /\ svc.nextSub = 2
    /\ Len(svc.tasks) = 1
    /\ FileListOf(lastCall.self) # <<>>

\* C18: a start_transfer that returns on an operation that already holds a
\* task id has requested a new submission id, submitted a descriptor over
\* it and replaced go_task_id by the id of the new task, which differs
\* from the old one; a later transfer_status that reaches the service asks
\* for the newest task only.
C18_RestartOverwrites ==
    [][\A o \in TransferOps :
          /\ \A src \in Opt(Ep1), dest \in Opt(Ep2), fail \in StartFails :
                (StartTransfer(o, src, dest, fail) /\ Returned(lastCall')
                 /\ top[o].go_task_id # NoTask)
                => LET sc == ServiceCalls(lastCall'.calls) IN
                   /\ svc'.nextSub = svc.nextSub + 1
                   /\ sc[3] = SubIdCall(svc'.nextSub)
                   /\ sc[4].submission_id = svc'.nextSub
                   /\ svc'.tasks = Append(svc.tasks, "ACTIVE")
                   /\ top'[o].go_task_id = Len(svc'.tasks)
                   /\ top'[o].go_task_id # top[o].go_task_id
          /\ \A fail \in StatusFails :
                (TransferStatus(o, fail) /\ lastCall'.calls # <<>>)
                => lastCall'.calls[Len(lastCall'.calls)] =
                      TaskCall(Len(svc.tasks))]_vars

\* transfer_status has asked for task 2, the task of the second start
C18_Witness ==
    /\ lastCall.op = "transfer_status"
    /\ Returned(lastCall)
    /\ lastCall.calls = <<TaskCall(2)>>
    /\ top[lastCall.self].go_task_id = 2
    /\ Len(svc.tasks) = 2
    /\ svc.nextSub = 2

\* C20: a start_transfer that leaves out src or dest on an operation with
\* a Configuration takes them from the Configuration and fails for no
\* other reason than one with both given would: with an empty file_list it
\* raises TransferException, and with a non-empty one, a source endpoint
\* and credentials configured and services that do not fail, it returns
\* and go_task_id is set.
C20_OmittedEndpointsFallBack ==
    \A o \in TransferOps :
        (/\ lastCall.op = "start_transfer"
         /\ lastCall.self = o
         /\ None \in {lastCall.args[1], lastCall.args[2]}
         /\ top[o].config # NoneRef
         /\ top[o].file_list # NoneRef)
        => /\ FileListOf(o) = <<>> => lastCall.exc = "TransferException"
           /\ (/\ FileListOf(o) # <<>>
               /\ cfg.src_endpoint # None
               /\ cfg.globus_pass # None
               /\ lastCall.exc \notin RemoteErrors)
              => Returned(lastCall) /\ top[o].go_task_id # NoTask

\* C19: a get_api call in which the authenticator rejects the exchange, or
\* the client cannot be built, raises that error and not ConfigException,
\* and leaves the Configuration as it was, the handle unset; and every
\* get_api call on a Configuration with credentials and no handle begins
\* with an exchange, so the call after a failed one exchanges again.
C19_FailedExchangeNotCached ==
    [][\A fail \in GetApiFails :
          GetApi(fail)
          => /\ fail # "none"
                => /\ lastCall'.exc = IF fail = "auth" THEN "AuthError"
                                      ELSE "ClientError"
                   /\ lastCall'.api = NoApi
                   /\ cfg.api = NoApi
                   /\ cfg' = cfg
             /\ (cfg.api = NoApi /\ cfg.globus_user # None
                 /\ cfg.globus_pass # None)
                => /\ authCalls' = authCalls + 1
                   /\ lastCall'.calls # <<>>
                   /\ lastCall'.calls[1] = TokenCall(cfg)]_vars

\* the client could not be built in a call that exchanged credentials for
\* the second time, the first call having failed too
C19_Witness ==
    /\ lastCall.op = "get_api"
    /\ lastCall.exc = "ClientError"
    /\ authCalls = 2
    /\ cfg.api = NoApi

====
